---- MODULE Spec2Model ----
(***************************************************************************)
(* Model of the Ramulator DPI wrapper (src/dpi_wrapper/ramulator_dpi.cpp): *)
(* one RamulatorWrapper session, its four C entry points and finalize,     *)
(* the completion callback, and the two engines the wrapper drives.        *)
(***************************************************************************)
EXTENDS Integers, Sequences, FiniteSets, TLC

\* ---------------------------------------------------------------- bounds
AddrBits == 3            \* width of an address/data word (64 in the build)
MaxRatio == 3            \* SpecSched: clock ratios 0..MaxRatio
MaxCycle == 10           \* SpecSched: ramulator_tick calls explored
SchedReqs == 1           \* SpecSched: ramulator_send_request calls explored
ReqRatio == 1            \* Spec, SpecOneAddr: clock ratios 1..ReqRatio
ReqCycle == 3            \* Spec, SpecOneAddr: ramulator_tick calls explored
MaxReqs  == 2            \* Spec: ramulator_send_request calls explored
OneReqs  == 3            \* SpecOneAddr: ramulator_send_request calls explored
TwinReqs == 2            \* SpecTwin: ramulator_send_request calls explored
TwinCycle == 2           \* SpecTwin: ramulator_tick calls explored
CycleBits == 4           \* width of cycle_count (64 in the build)
LiveReqs == 1            \* SpecLive: ramulator_send_request calls explored

\* ------------------------------------------------------------- constants
Read  == 0               \* req_type 0 = Read
Write == 1               \* req_type 1 = Write
\* variant: 0 is returned when nothing is pending
Sentinel_zero == 1 - 1
Sentinel == -1           \* "none pending" result of ramulator_check_response

Word    == 2 ^ AddrBits
CycleWord == 2 ^ CycleBits
TopAddr == Word - 1      \* the all-ones address (2^64 - 1 in the build)
Addrs   == {1, TopAddr}  \* addresses the driver submits
OneAddr == {1}           \* SpecOneAddr: the one address the driver submits
Data    == {2, 3}        \* write data the driver submits
SourceIds == {0}

VARIABLES
  h,                     \* the handle: which lifecycle state the session is in
  frontend_tick_ratio,   \* RamulatorWrapper::frontend_tick_ratio
  mem_tick_ratio,        \* RamulatorWrapper::mem_tick_ratio
  cycle_count,           \* RamulatorWrapper::cycle_count
  req_times,             \* RamulatorWrapper::req_times        (Request Ledger)
  functional_mem,        \* RamulatorWrapper::functional_mem   (Functional Store)
  completed_requests,    \* RamulatorWrapper::completed_requests (Completion Queue)
  pending,               \* requests the engines hold, each with its callback
  response,              \* what the last ramulator_check_response returned
  sends,                 \* history: number of ramulator_send_request calls
  written,               \* history: data of the last Write submitted, per address
  rejected,              \* history: addresses a rejected Write was submitted to
  sent,                  \* history: each accepted request, by call number
  fired,                 \* history: every callback invocation, in order
  returned,              \* history: every non-sentinel ramulator_check_response result
  ticks_called,          \* history: number of ramulator_tick calls
  window,                \* history: drive decisions of the last R_f * R_m ticks
  twin                   \* a second run of the same driver calls (SpecTwin)

vars == <<h, frontend_tick_ratio, mem_tick_ratio, cycle_count, req_times,
          functional_mem, completed_requests, pending, response, sends,
          written, rejected, sent, fired, returned, ticks_called, window,
          twin>>

session == <<frontend_tick_ratio, mem_tick_ratio, cycle_count, req_times,
             functional_mem, completed_requests, pending>>

history == <<sends, written, rejected, sent, fired, returned, ticks_called,
             window>>

\* ------------------------------------------------------------ conversions
\* static_cast<long long>(cr.addr): the word read as two's complement
ToSigned(a) == IF a >= Word \div 2 THEN a - Word ELSE a

\* static_cast<uint64_t>(req.addr): the word read as unsigned
ToUnsigned(a) == a % Word

EmptyMap == [k \in {} |-> 0]

\* std::unordered_map operator[] assignment: insert or overwrite one key
MapPut(m, k, v) == [x \in (DOMAIN m) \cup {k} |-> IF x = k THEN v ELSE m[x]]

\* ------------------------------------------------------------- callback
\* variant: the never-written default is 0 instead of the address
callback_zero_default(fm, cq, req) ==
  LET val == IF req.addr \in DOMAIN fm THEN fm[req.addr] ELSE 0
  IN  Append(cq, [addr |-> req.addr, data |-> val, req |-> req.req])

\* variant: the address is returned as data, the store is not consulted
callback_address_only(fm, cq, req) ==
  Append(cq, [addr |-> req.addr, data |-> ToUnsigned(req.addr),
              req |-> req.req])

\* variant: a never-written address reads as the queue depth at firing
callback_queue_depth(fm, cq, req) ==
  LET val == IF req.addr \in DOMAIN fm THEN fm[req.addr] ELSE Len(cq)
  IN  Append(cq, [addr |-> req.addr, data |-> val, req |-> req.req])

\* The closure built in ramulator_send_request, run on request req against
\* the functional store fm and the completion queue cq; yields the new queue.
\* A CompletedReq is {addr, data}; req is a history tag naming the
\* ramulator_send_request call the entry stems from.
callback(fm, cq, req) ==
  LET val == IF req.addr \in DOMAIN fm THEN fm[req.addr]
             ELSE ToUnsigned(req.addr)
  IN  Append(cq, [addr |-> req.addr, data |-> val, req |-> req.req])

\* ------------------------------------------------------------ scheduler
tick_mult(rf, rm) == rf * rm

\* variant: the frontend condition taken modulo its own ratio
drive_frontend_own_ratio(n, rf, rm) == ((n % tick_mult(rf, rm)) % rf) = 0

drive_frontend(n, rf, rm) == ((n % tick_mult(rf, rm)) % rm) = 0

\* variant: the memory condition taken on the counter before the increment
drive_memory_pre_increment(n, rf, rm) ==
  (((n - 1) % tick_mult(rf, rm)) % rf) = 0

drive_memory(n, rf, rm) == ((n % tick_mult(rf, rm)) % rf) = 0

\* -------------------------------------------------------------- engines
\* The orders in which memory_system->tick() may complete requests it holds:
\* any number of them, each once, in any order.
Completions(P) ==
  {s \in UNION {[1..n -> P] : n \in 0..Cardinality(P)} :
      \A i, j \in DOMAIN s : i # j => s[i] # s[j]}

Range(s) == {s[i] : i \in DOMAIN s}

RECURSIVE RunCallbacks(_, _, _)
RunCallbacks(fm, cq, s) ==
  IF s = <<>> THEN cq
  ELSE RunCallbacks(fm, callback(fm, cq, Head(s)), Tail(s))

\* What the driver has last submitted as a Write to address a, under wr.
LastWrite(wr, a) == [has_write |-> a \in DOMAIN wr,
                     last_write |-> IF a \in DOMAIN wr THEN wr[a] ELSE 0]

\* The history entry of one callback invocation: what it enqueued, for
\* which request, and the last Write submitted to that address by then.
RECURSIVE FiredLog(_, _, _, _, _)
FiredLog(fm, cq, log, s, wr) ==
  IF s = <<>> THEN log
  ELSE LET r == Head(s)
           q == callback(fm, cq, r)
           e == q[Len(q)]
       IN  FiredLog(fm, q, Append(log, [addr |-> e.addr, data |-> e.data,
                                        req |-> e.req,
                                        at_fire |-> LastWrite(wr, r.addr)]),
                    Tail(s), wr)

\* The second run: the same driver calls with the same accept results on a
\* session of its own, whose engine picks its own completions.  It is off
\* except under SpecTwin.  lag: the requests whose callbacks the two engines
\* fired in different ticks.
TwinRun(on) == [on |-> on, functional_mem |-> EmptyMap, pending |-> {},
                completed_requests |-> <<>>, fired |-> <<>>, lag |-> {}]

\* ----------------------------------------------------------------- Init
InitSession ==
  /\ h = "Uninitialized"
  /\ frontend_tick_ratio = 0
  /\ mem_tick_ratio = 0
  /\ cycle_count = 0
  /\ req_times = EmptyMap
  /\ functional_mem = EmptyMap
  /\ completed_requests = <<>>
  /\ pending = {}
  /\ response = [ret |-> 0, data |-> 0]
  /\ sends = 0
  /\ written = EmptyMap
  /\ rejected = {}
  /\ sent = EmptyMap
  /\ fired = <<>>
  /\ returned = <<>>
  /\ ticks_called = 0
  /\ window = <<>>

Init == InitSession /\ twin = TwinRun(FALSE)

InitTwin == InitSession /\ twin = TwinRun(TRUE)

\* ------------------------------------------------------- ramulator_init
\* Construction throws (bad configuration, engine construction): null handle.
ramulator_init_fail ==
  /\ h = "Uninitialized"
  /\ h' = "Null"
  /\ UNCHANGED <<session, response, history, twin>>

\* Construction succeeds: the ratios are whatever the engines report.
ramulator_init_ok(minr, maxr) ==
  /\ h = "Uninitialized"
  /\ \E rf \in minr..maxr, rm \in minr..maxr :
       /\ frontend_tick_ratio' = rf
       /\ mem_tick_ratio' = rm
  /\ cycle_count' = 0
  /\ h' = "Ready"
  /\ UNCHANGED <<req_times, functional_mem, completed_requests, pending,
                 response, history, twin>>

\* ----------------------------------------------- ramulator_send_request
\* variant: every submit stores its data, the req_type test is missing
store_write_any(fm, addr, req_type, data) == MapPut(fm, addr, data)

\* variant: a Write does not overwrite an address already in the store
store_write_once(fm, addr, req_type, data) ==
  IF req_type = Write /\ addr \notin DOMAIN fm THEN MapPut(fm, addr, data)
  ELSE fm

store_write(fm, addr, req_type, data) ==
  IF req_type = Write THEN MapPut(fm, addr, data) ELSE fm

\* variant: the ledger keeps the first record of an address (insert, not [])
record_insert_only(rt, addr, cycle, req_type) ==
  IF addr \in DOMAIN rt THEN rt ELSE MapPut(rt, addr, <<cycle, req_type>>)

\* variant: only Writes are entered in the ledger
record_writes_only(rt, addr, cycle, req_type) ==
  IF req_type = Write THEN MapPut(rt, addr, <<cycle, req_type>>) ELSE rt

\* variant: the entry is stamped with the cycle after the current one
record_next_cycle(rt, addr, cycle, req_type) ==
  MapPut(rt, addr, <<cycle + 1, req_type>>)

\* req_times[addr] = make_tuple(cycle_count, req_type)
record(rt, addr, cycle, req_type) == MapPut(rt, addr, <<cycle, req_type>>)

\* The body of ramulator_send_request on a handle whose session is in state
\* st (the function itself does not look at the session's state).
send_request_in(st, addr, req_type, source_id, data, accepted) ==
  /\ h = st
  /\ functional_mem' = store_write(functional_mem, addr, req_type, data)
  /\ pending' = IF accepted
                THEN pending \cup {[addr |-> addr, type_id |-> req_type,
                                    source_id |-> source_id,
                                    req |-> sends + 1]}
                ELSE pending
  /\ req_times' = IF accepted
                  THEN record(req_times, addr, cycle_count, req_type)
                  ELSE req_times
  /\ sends' = sends + 1
  /\ written' = IF req_type = Write THEN MapPut(written, addr, data)
                ELSE written
  /\ rejected' = IF req_type = Write /\ ~accepted THEN rejected \cup {addr}
                 ELSE rejected
  /\ sent' = IF accepted
             THEN MapPut(sent, sends + 1,
                         [addr |-> addr, type_id |-> req_type,
                          at_send |-> LastWrite(written', addr)])
             ELSE sent
  /\ twin' = IF twin.on
             THEN [twin EXCEPT
                     !.functional_mem = store_write(@, addr, req_type, data),
                     !.pending = IF accepted
                                 THEN @ \cup {[addr |-> addr,
                                               type_id |-> req_type,
                                               source_id |-> source_id,
                                               req |-> sends + 1]}
                                 ELSE @]
             ELSE twin
  /\ UNCHANGED <<h, frontend_tick_ratio, mem_tick_ratio, cycle_count,
                 completed_requests, response, fired, returned,
                 ticks_called, window>>

send_request(addr, req_type, source_id, data, accepted) ==
  send_request_in("Ready", addr, req_type, source_id, data, accepted)

ramulator_send_request(A, maxs) ==
  /\ sends < maxs
  /\ \E addr \in A, req_type \in {Read, Write}, source_id \in SourceIds,
        data \in Data, accepted \in BOOLEAN :
          send_request(addr, req_type, source_id,
                       IF req_type = Write THEN data ELSE 0, accepted)

\* ------------------------------------------------------- ramulator_tick
\* wrapper->cycle_count++: the first statement, whatever the drive
\* conditions df, dm evaluated afterwards come out as.
\* variant: the increment is skipped when neither engine is driven
cycle_after_if_driven(c, df, dm) ==
  IF df \/ dm THEN (c + 1) % CycleWord ELSE c

cycle_after(c, df, dm) == (c + 1) % CycleWord

\* The last n entries of a sequence.
LastN(s, n) == IF Len(s) <= n THEN s ELSE SubSeq(s, Len(s) - n + 1, Len(s))

\* One ramulator_tick in which the two drive conditions evaluate to df, dm.
\* frontend->tick() runs first and completes nothing; memory_system->tick()
\* invokes the callbacks of the requests it completes this tick.
tick_step(df, dm) ==
  /\ cycle_count' = cycle_after(cycle_count, df, dm)
  /\ ticks_called' = (ticks_called + 1) % CycleWord
  /\ \E s \in (IF dm THEN Completions(pending) ELSE {<<>>}) :
       /\ completed_requests' = RunCallbacks(functional_mem, completed_requests, s)
       /\ pending' = pending \ Range(s)
       /\ fired' = FiredLog(functional_mem, completed_requests, fired, s,
                            written)
       /\ \E t \in (IF dm /\ twin.on THEN Completions(twin.pending)
                   ELSE {<<>>}) :
            twin' = IF twin.on
                    THEN [twin EXCEPT
                            !.completed_requests =
                               RunCallbacks(twin.functional_mem, @, t),
                            !.pending = @ \ Range(t),
                            !.fired = FiredLog(twin.functional_mem,
                                               twin.completed_requests, @, t,
                                               written),
                            !.lag = @ \cup {r.req : r \in
                                      (Range(s) \ Range(t))
                                        \cup (Range(t) \ Range(s))}]
                    ELSE twin
  /\ window' = LastN(Append(window, <<df, dm>>),
                     tick_mult(frontend_tick_ratio, mem_tick_ratio))
  /\ UNCHANGED <<h, frontend_tick_ratio, mem_tick_ratio, req_times,
                 functional_mem, response, sends, written, rejected, sent,
                 returned>>

\* Both ratios positive: the drive conditions are defined.
ramulator_tick(maxc) ==
  /\ h = "Ready"
  /\ cycle_count < maxc
  /\ tick_mult(frontend_tick_ratio, mem_tick_ratio) # 0
  /\ tick_step(drive_frontend(cycle_count + 1, frontend_tick_ratio, mem_tick_ratio),
               drive_memory(cycle_count + 1, frontend_tick_ratio, mem_tick_ratio))

\* A ratio is 0: cycle_count % tick_mult is a modulo by zero, undefined
\* behaviour.  Either the process traps after the increment ...
ramulator_tick_trap(maxc) ==
  /\ h = "Ready"
  /\ cycle_count < maxc
  /\ tick_mult(frontend_tick_ratio, mem_tick_ratio) = 0
  /\ cycle_count' = cycle_after(cycle_count, FALSE, FALSE)
  /\ ticks_called' = (ticks_called + 1) % CycleWord
  /\ h' = "Trapped"
  /\ UNCHANGED <<frontend_tick_ratio, mem_tick_ratio, req_times,
                 functional_mem, completed_requests, pending, response,
                 sends, written, rejected, sent, fired, returned, window,
                 twin>>

\* ... or the two conditions come out either way.
ramulator_tick_undef(maxc) ==
  /\ h = "Ready"
  /\ cycle_count < maxc
  /\ tick_mult(frontend_tick_ratio, mem_tick_ratio) = 0
  /\ \E df \in BOOLEAN, dm \in BOOLEAN : tick_step(df, dm)

\* --------------------------------------------- ramulator_check_response
\* Which end of the completion queue a response is taken from.
\* variant: the newest entry is returned instead of the oldest
front_newest(cq) == cq[Len(cq)]

front(cq) == Head(cq)

pop(cq) == Tail(cq)

\* variant: the ledger entry is erased once its completion is reported
ledger_after_take(rt, addr) == [x \in (DOMAIN rt) \ {addr} |-> rt[x]]

\* req_times.find(cr.addr): the ledger is read for the latency print only.
ledger_after_lookup(rt, addr) == rt

\* The function's return value for the entry cr.
response_addr(cr) == ToSigned(cr.addr)

\* The same ramulator_check_response call in the second run.
twin_check_response ==
  IF twin.on /\ twin.completed_requests # <<>>
  THEN [twin EXCEPT !.completed_requests = pop(@)]
  ELSE twin

check_response_empty_in(st) ==
  /\ h = st
  /\ completed_requests = <<>>
  /\ response' = [ret |-> Sentinel, data |-> response.data]
  /\ twin' = twin_check_response
  /\ UNCHANGED <<h, session, history>>

check_response_pop_in(st) ==
  /\ h = st
  /\ completed_requests # <<>>
  /\ LET cr == front(completed_requests) IN
       /\ completed_requests' = pop(completed_requests)
       /\ response' = [ret |-> response_addr(cr), data |-> cr.data]
       /\ returned' = Append(returned, [ret |-> response_addr(cr),
                                        data |-> cr.data, req |-> cr.req])
       /\ req_times' = ledger_after_lookup(req_times, cr.addr)
  /\ twin' = twin_check_response
  /\ UNCHANGED <<h, frontend_tick_ratio, mem_tick_ratio, cycle_count,
                 functional_mem, pending, sends, written, rejected, sent,
                 fired, ticks_called, window>>

check_response_empty == check_response_empty_in("Ready")

check_response_pop == check_response_pop_in("Ready")

\* --------------------------------------------------- ramulator_finalize
ramulator_finalize ==
  /\ h = "Ready"
  /\ h' = "Finalized"
  /\ UNCHANGED <<session, response, history, twin>>

\* ------------------------------------------------ calls after finalize
\* ramulator_finalize deletes the wrapper and no function tests the handle,
\* so a later call dereferences freed storage.  The build either faults, or
\* finds the storage still holding the session and runs the function on it.
\* (A second ramulator_finalize faults or has no effect on the modelled
\* state.)
after_finalize_trap ==
  /\ h = "Finalized"
  /\ h' = "Trapped"
  /\ UNCHANGED <<session, response, history, twin>>

after_finalize_send_request(A, maxs) ==
  /\ sends < maxs
  /\ \E addr \in A, req_type \in {Read, Write}, source_id \in SourceIds,
        data \in Data, accepted \in BOOLEAN :
       send_request_in("Finalized", addr, req_type, source_id,
                       IF req_type = Write THEN data ELSE 0, accepted)

after_finalize_tick(maxc) ==
  /\ h = "Finalized"
  /\ cycle_count < maxc
  /\ tick_mult(frontend_tick_ratio, mem_tick_ratio) # 0
  /\ tick_step(drive_frontend(cycle_count + 1, frontend_tick_ratio,
                              mem_tick_ratio),
               drive_memory(cycle_count + 1, frontend_tick_ratio,
                            mem_tick_ratio))

after_finalize_check_response ==
  check_response_empty_in("Finalized") \/ check_response_pop_in("Finalized")

\* ------------------------------------------------------------------ Next
\* A session whose configuration yields positive ratios, driven with up to
\* MaxReqs requests.  (Sessions with a ratio of 0 are explored by SpecSched.)
Next ==
  \/ ramulator_init_fail
  \/ ramulator_init_ok(1, ReqRatio)
  \/ ramulator_send_request(Addrs, MaxReqs)
  \/ ramulator_tick(ReqCycle)
  \/ check_response_empty
  \/ check_response_pop
  \/ ramulator_finalize

Spec == Init /\ [][Next]_vars

\* The same session driven with up to OneReqs requests, all to one address.
NextOneAddr ==
  \/ ramulator_init_fail
  \/ ramulator_init_ok(1, ReqRatio)
  \/ ramulator_send_request(OneAddr, OneReqs)
  \/ ramulator_tick(ReqCycle)
  \/ check_response_empty
  \/ check_response_pop
  \/ ramulator_finalize

SpecOneAddr == Init /\ [][NextOneAddr]_vars

\* A session over every ratio the configuration can yield, 0 included,
\* ticked for longer and driven with up to SchedReqs requests.
NextSched ==
  \/ ramulator_init_fail
  \/ ramulator_init_ok(0, MaxRatio)
  \/ ramulator_send_request(Addrs, SchedReqs)
  \/ ramulator_tick(MaxCycle)
  \/ ramulator_tick_trap(MaxCycle)
  \/ ramulator_tick_undef(MaxCycle)
  \/ check_response_empty
  \/ check_response_pop
  \/ ramulator_finalize

SpecSched == Init /\ [][NextSched]_vars

\* A session whose driver goes on calling ramulator_tick and
\* ramulator_check_response for ever (the counter wraps at its width) and
\* never finalizes.
ramulator_tick_forever == ramulator_tick(CycleWord)

NextLive ==
  \/ ramulator_init_fail
  \/ ramulator_init_ok(1, ReqRatio)
  \/ ramulator_send_request(Addrs, LiveReqs)
  \/ ramulator_tick_forever
  \/ check_response_empty
  \/ check_response_pop

\* The tick in which the engine fires the callback of request r.
FireTick(r) ==
  /\ ramulator_tick_forever
  /\ \E i \in DOMAIN fired' : fired'[i].req = r
  /\ \A i \in DOMAIN fired : fired[i].req # r

\* The driver keeps ticking and draining, and the engine, ticked often
\* enough, fires the callback of every request it holds.
SpecLive ==
  /\ Init
  /\ [][NextLive]_vars
  /\ WF_vars(ramulator_tick_forever)
  /\ WF_vars(check_response_pop)
  /\ \A r \in 1..LiveReqs : SF_vars(FireTick(r))

\* Two runs of one driver on a one-address session.
NextTwin ==
  \/ ramulator_init_fail
  \/ ramulator_init_ok(1, 1)
  \/ ramulator_send_request(OneAddr, TwinReqs)
  \/ ramulator_tick(TwinCycle)
  \/ check_response_empty
  \/ check_response_pop
  \/ ramulator_finalize

SpecTwin == InitTwin /\ [][NextTwin]_vars

\* A one-address session that is also called after ramulator_finalize.
NextFinal ==
  \/ ramulator_init_fail
  \/ ramulator_init_ok(1, ReqRatio)
  \/ ramulator_send_request(OneAddr, MaxReqs)
  \/ ramulator_tick(ReqCycle)
  \/ check_response_empty
  \/ check_response_pop
  \/ ramulator_finalize
  \/ after_finalize_trap
  \/ after_finalize_send_request(OneAddr, MaxReqs)
  \/ after_finalize_tick(ReqCycle)
  \/ after_finalize_check_response

SpecFinal == Init /\ [][NextFinal]_vars

\* ================================================================ claims
CountF(w) == Cardinality({i \in DOMAIN w : w[i][1]})
CountM(w) == Cardinality({i \in DOMAIN w : w[i][2]})
Period == tick_mult(frontend_tick_ratio, mem_tick_ratio)
FullWindow == /\ frontend_tick_ratio > 0
              /\ mem_tick_ratio > 0
              /\ Len(window) = Period
FiredOf(r) == CHOOSE f \in Range(fired) : f.req = r

\* C1 (as stated): over any R_f * R_m consecutive ticks the frontend is
\* driven R_m times and the memory system R_f times; with ratios (2, 3),
\* after the first 6 ticks the frontend was driven 3 times, the memory
\* system 2 times.
C1_WindowCountsAsStated ==
  FullWindow => /\ CountF(window) = mem_tick_ratio
                /\ CountM(window) = frontend_tick_ratio

\* C1 (amended): over any R_f * R_m consecutive ticks the frontend is driven
\* exactly R_f times and the memory system exactly R_m times; with ratios
\* (2, 3), after the first 6 ticks the frontend was driven 2 times and the
\* memory system 3 times.
C1_WindowCounts ==
  FullWindow => /\ CountF(window) = frontend_tick_ratio
                /\ CountM(window) = mem_tick_ratio

\* A window of 6 ticks other than the first, under ratios (2, 3).
C1_Witness ==
  /\ frontend_tick_ratio = 2
  /\ mem_tick_ratio = 3
  /\ cycle_count = 8
  /\ Len(window) = 6

\* C2 (as stated): a Read to a, submitted after a Write of v to a with no
\* Write to a between the two, completes with value v.  Stated for the
\* addresses every Write to which was accepted.
C2_ReadValueAsStated ==
  \A i \in DOMAIN returned :
    LET q == sent[returned[i].req] IN
      (q.type_id = Read /\ q.at_send.has_write /\ q.addr \notin rejected)
        => returned[i].data = q.at_send.last_write

\* C2 (amended): a Read to a completes with the value of the last Write to a
\* submitted, accepted or not, before the Read's callback fires; so with v
\* when no Write to a is submitted between the Write of v and the firing of
\* the callback.
C2_ReadValue ==
  \A i \in DOMAIN returned :
    LET q == sent[returned[i].req]
        f == FiredOf(returned[i].req)
    IN  (q.type_id = Read /\ f.at_fire.has_write)
          => returned[i].data = f.at_fire.last_write

\* A Read submitted after a Write to its address has been drained, with
\* ticks before it fired.
C2_Witness ==
  \E i \in DOMAIN returned :
    LET q == sent[returned[i].req] IN
      /\ q.type_id = Read
      /\ q.at_send.has_write
      /\ returned[i].data = q.at_send.last_write
      /\ cycle_count = ReqCycle

\* C3: a Read to an address that no Write was submitted to before the Read's
\* callback fired is returned with the address itself as value, and with
\* that address as the returned address word.
C3_UnwrittenReadsAddress ==
  \A i \in DOMAIN returned :
    LET q == sent[returned[i].req]
        f == FiredOf(returned[i].req)
    IN  (q.type_id = Read /\ ~f.at_fire.has_write)
          => /\ returned[i].data = q.addr
             /\ returned[i].ret % Word = q.addr

\* A Read of a never-written address has been drained.
C3_Witness ==
  \E i \in DOMAIN returned :
    /\ sent[returned[i].req].type_id = Read
    /\ ~FiredOf(returned[i].req).at_fire.has_write
    /\ written = EmptyMap

\* C4: a ramulator_send_request that is rejected leaves the ledger, the
\* functional store and the completion queue unchanged.
C4_RejectedSubmitFrame ==
  [][\A addr \in Addrs, req_type \in {Read, Write}, source_id \in SourceIds,
        data \in Data \cup {0} :
          send_request(addr, req_type, source_id, data, FALSE)
            => UNCHANGED <<req_times, functional_mem, completed_requests>>]_vars

\* C5: the responses returned so far are, in order, the first callbacks that
\* fired, and the remaining fired callbacks are exactly the queue: nothing
\* is returned twice, skipped or reordered.
C5_DrainFifoExactlyOnce ==
  /\ Len(fired) = Len(returned) + Len(completed_requests)
  /\ \A i \in DOMAIN returned :
       /\ returned[i].req = fired[i].req
       /\ returned[i].data = fired[i].data
  /\ \A j \in DOMAIN completed_requests :
       /\ completed_requests[j].req = fired[Len(returned) + j].req
       /\ completed_requests[j].data = fired[Len(returned) + j].data

\* Two Reads were returned in the opposite of their issue order.
C5_Witness ==
  /\ Len(returned) >= 2
  /\ returned[1].req > returned[2].req
  /\ sent[returned[1].req].type_id = Read
  /\ sent[returned[2].req].type_id = Read

\* C6: the cycle counter is 0 at creation and always equals the number of
\* ramulator_tick calls made since: each tick adds exactly 1, driven or not,
\* and nothing else changes it.
C6_CycleCounter ==
  /\ h = "Uninitialized" => ticks_called = 0
  /\ h # "Uninitialized" => cycle_count = ticks_called

\* After a request and a response, a tick has driven neither engine.
C6_Witness ==
  /\ h = "Ready"
  /\ sends > 0
  /\ returned # <<>>
  /\ cycle_count >= 3
  /\ window # <<>>
  /\ window[Len(window)] = <<FALSE, FALSE>>

\* C7: a ramulator_check_response on an empty completion queue returns -1
\* and leaves queue, ledger, functional store and cycle counter unchanged.
C7_EmptyDrainFrame ==
  [][(h = "Ready" /\ completed_requests = <<>> /\ response' # response)
       => /\ response'.ret = -1
          /\ UNCHANGED <<completed_requests, req_times, functional_mem,
                         cycle_count>>]_vars

\* Everything was drained, then the empty queue was polled.
C7_Witness ==
  /\ h = "Ready"
  /\ completed_requests = <<>>
  /\ returned # <<>>
  /\ returned[Len(returned)].ret # -1
  /\ response.ret = -1

\* C8: every callback that fired, hence every completion entry, belongs to
\* an accepted Read.
C8_OnlyReadsComplete ==
  \A i \in DOMAIN fired : sent[fired[i].req].type_id = Read

\* C9: every response taken from a non-empty queue for an accepted Read
\* carries an address >= 0 equal to the submitted one, so it is never the
\* sentinel.
C9_ReturnedAddress ==
  \A i \in DOMAIN returned :
    sent[returned[i].req].type_id = Read
      => /\ returned[i].ret >= 0
         /\ returned[i].ret = sent[returned[i].req].addr

\* C10: no session is Ready with a clock ratio of 0, and no tick runs into
\* the modulo by zero.
C10_ZeroRatioRejected ==
  /\ h = "Ready" => (frontend_tick_ratio > 0 /\ mem_tick_ratio > 0)
  /\ h # "Trapped"

\* C11 as stated: in two runs with the same submits and accept results, a
\* Read has the same completion value, whenever each engine fires it
\* (looked at for addresses all of whose Writes were accepted).
C11_SameValueAsStated ==
  \A i \in DOMAIN fired, j \in DOMAIN twin.fired :
    (/\ fired[i].req = twin.fired[j].req
     /\ sent[fired[i].req].type_id = Read
     /\ sent[fired[i].req].addr \notin rejected)
      => fired[i].data = twin.fired[j].data

\* C11: in two runs with the same submits and accept results, a Read has
\* the same completion value in both whenever the same Write to its address
\* was the last one submitted before its callback fired in each run,
\* whatever else the two engines did differently.
C11_SameValue ==
  \A i \in DOMAIN fired, j \in DOMAIN twin.fired :
    (/\ fired[i].req = twin.fired[j].req
     /\ sent[fired[i].req].type_id = Read
     /\ fired[i].at_fire = twin.fired[j].at_fire)
      => fired[i].data = twin.fired[j].data

\* The two engines fired a Read of a written address in different ticks,
\* with the same Write last submitted before each firing.
C11_Witness ==
  \E i \in DOMAIN fired, j \in DOMAIN twin.fired :
    /\ fired[i].req = twin.fired[j].req
    /\ sent[fired[i].req].type_id = Read
    /\ fired[i].req \in twin.lag
    /\ fired[i].at_fire.has_write
    /\ fired[i].at_fire = twin.fired[j].at_fire
    /\ fired[i].data = twin.fired[j].data

\* C12: every accepted Read of address a is eventually returned by a
\* response check whose result is not the sentinel and is a.
C12_AcceptedReadReturned ==
  \A r \in 1..LiveReqs :
    (r \in DOMAIN sent /\ sent[r].type_id = Read)
      ~> (\E i \in DOMAIN returned :
            /\ returned[i].req = r
            /\ returned[i].ret # Sentinel
            /\ returned[i].ret = sent[r].addr)

\* C13: each tick drives the frontend iff (n mod period) mod R_m = 0 and the
\* memory system iff (n mod period) mod R_f = 0, n being the counter after
\* the increment; with both ratios 1 every tick drives both.
C13_DriveConditions ==
  (frontend_tick_ratio > 0 /\ mem_tick_ratio > 0 /\ window # <<>>)
    => /\ window[Len(window)][1]
            = (((cycle_count % Period) % mem_tick_ratio) = 0)
       /\ window[Len(window)][2]
            = (((cycle_count % Period) % frontend_tick_ratio) = 0)
       /\ (Period = 1 => window[Len(window)] = <<TRUE, TRUE>>)

\* A tick that drove the frontend and not the memory system.
C13_Witness ==
  /\ frontend_tick_ratio = 2
  /\ mem_tick_ratio = 3
  /\ cycle_count = 3
  /\ window[Len(window)] = <<TRUE, FALSE>>

\* C14: an accepted request to a sets the ledger entry of a to (current
\* cycle, kind), whatever was there, and leaves every other entry as it was.
C14_LedgerRecord ==
  [][sent' # sent
       => LET q == sent'[sends + 1] IN
            /\ DOMAIN req_times' = DOMAIN req_times \cup {q.addr}
            /\ req_times'[q.addr] = <<cycle_count, q.type_id>>
            /\ \A b \in DOMAIN req_times \ {q.addr} :
                 req_times'[b] = req_times[b]]_vars

\* The entry of an address was overwritten by a later request of another
\* kind, issued after the first tick.
C14_Witness ==
  /\ DOMAIN sent = {1, 2}
  /\ sent[1].addr = sent[2].addr
  /\ sent[1].type_id # sent[2].type_id
  /\ req_times[sent[2].addr] = <<cycle_count, sent[2].type_id>>
  /\ cycle_count > 0

\* C15: the functional store changes only in the submit of a Write and only
\* at that address; the submit of a Read, a tick (callbacks included) and a
\* response check leave it unchanged.
C15_StoreFrame ==
  [][/\ \A addr \in Addrs, source_id \in SourceIds, data \in Data \cup {0},
           accepted \in BOOLEAN :
             /\ send_request(addr, Read, source_id, data, accepted)
                  => UNCHANGED functional_mem
             /\ send_request(addr, Write, source_id, data, accepted)
                  => \A b \in Addrs \ {addr} :
                       /\ b \in DOMAIN functional_mem'
                            <=> b \in DOMAIN functional_mem
                       /\ b \in DOMAIN functional_mem
                            => functional_mem'[b] = functional_mem[b]
     /\ (ticks_called' # ticks_called \/ fired' # fired
           \/ response' # response \/ returned' # returned)
          => UNCHANGED functional_mem]_vars

\* A written store went through a Read, callbacks and a response.
C15_Witness ==
  /\ functional_mem # EmptyMap
  /\ returned # <<>>
  /\ \E r \in DOMAIN sent : sent[r].type_id = Read
  /\ cycle_count > 0

\* C16: once the session is Finalized, every later call is rejected: it
\* changes no session state, drives neither engine and returns no
\* completion.
C16_FinalizedRejectsAll ==
  [][h = "Finalized"
       => UNCHANGED <<session, response, sends, fired, returned,
                      ticks_called, window>>]_vars

\* C17: the value a Read's callback enqueues is the functional store's
\* content for the address when the callback fires: the last Write submitted
\* by then, also one submitted after the Read was accepted.
C17_ValueAtCallbackTime ==
  \A i \in DOMAIN fired :
    sent[fired[i].req].type_id = Read
      => fired[i].data = IF fired[i].at_fire.has_write
                         THEN fired[i].at_fire.last_write
                         ELSE sent[fired[i].req].addr

\* A Write submitted while the Read was in flight decided the Read's value.
C17_Witness ==
  \E i \in DOMAIN fired :
    LET q == sent[fired[i].req] IN
      /\ q.type_id = Read
      /\ q.at_send.has_write
      /\ fired[i].at_fire.last_write # q.at_send.last_write
      /\ fired[i].data = fired[i].at_fire.last_write

\* C18: no step removes a ledger entry of a Ready session; a response check
\* leaves the ledger as it is, the reported address included.
C18_LedgerNeverShrinks ==
  [][h = "Ready"
       => /\ \A a \in DOMAIN req_times : a \in DOMAIN req_times'
          /\ returned' # returned => req_times' = req_times]_vars

\* A completed request was reported and its record is still in the ledger.
C18_Witness ==
  /\ h = "Ready"
  /\ returned # <<>>
  /\ sent[returned[1].req].addr \in DOMAIN req_times
  /\ completed_requests = <<>>

\* C19: every completion entry, queued or already reported with a
\* non-sentinel address, is for an address the ledger holds.
C19_NoCorrelationMiss ==
  /\ \A j \in DOMAIN completed_requests :
       completed_requests[j].addr \in DOMAIN req_times
  /\ \A i \in DOMAIN returned :
       returned[i].ret # -1 => (returned[i].ret % Word) \in DOMAIN req_times

\* A completion with a non-sentinel address was reported.
C19_Witness ==
  /\ returned # <<>>
  /\ returned[1].ret # -1
  /\ returned[1].ret \in DOMAIN req_times

\* C20: every ledger entry's issue cycle is at most the cycle counter.
C20_IssueCycleNotAhead ==
  \A a \in DOMAIN req_times : req_times[a][1] <= cycle_count

\* A request issued after the first tick and ticked since.
C20_Witness ==
  \E a \in DOMAIN req_times :
    /\ req_times[a][1] > 0
    /\ req_times[a][1] < cycle_count

====
